---- MODULE Spec2Model ----
(***************************************************************************)
(* Model of bot.py: the Telegram receipt bot.  handle_photo is a coroutine *)
(* run by a single asyncio event loop; each photo message is one task.     *)
(*                                                                         *)
(* Text is modelled as a sequence of lexemes ("atoms"), each standing for  *)
(* the literal characters it spells.  No atom is a concatenation of other  *)
(* atoms, so two atom sequences are equal exactly when the Python strings  *)
(* they spell are equal, and str.replace / str.startswith / str.strip on   *)
(* the patterns bot.py uses act on atom boundaries.  The backtick is       *)
(* written BACKTICK, an emoji as its name in parentheses, and accented     *)
(* letters without their accent.  The alphabet has no backslash and no     *)
(* literal name (true, false, null), so json.loads is modelled on objects, *)
(* arrays, strings without escapes and unsigned integers.                  *)
(***************************************************************************)
EXTENDS Integers, Sequences, FiniteSets, TLC

----------------------------------------------------------------------------
(* Bounds of the model *)

\* number of photo messages (tasks running handle_photo)
MaxReq == 2

----------------------------------------------------------------------------
(* Atoms *)

BT    == "BACKTICK"
NL    == "\n"
SP    == " "
QUOTE == "\""

\* "```json", the prefix tested at line 81
FenceOpen == <<BT, BT, BT, "json">>
\* "```json\n", the first pattern removed at line 82
FenceOpenNL == FenceOpen \o <<NL>>
\* "```", the second pattern removed at line 82
Fence == <<BT, BT, BT>>

\* digits: a run of them is a JSON number
NumAtoms == {"2"}

----------------------------------------------------------------------------
(* str methods used by lines 81-82 *)

IsSpace(c) == c \in {SP, NL}

RECURSIVE LStrip(_)
LStrip(s) ==
    IF s # <<>> /\ IsSpace(Head(s)) THEN LStrip(Tail(s)) ELSE s

RECURSIVE RStrip(_)
RStrip(s) ==
    IF s # <<>> /\ IsSpace(s[Len(s)]) THEN RStrip(SubSeq(s, 1, Len(s) - 1)) ELSE s

\* str.strip()
Strip(s) == RStrip(LStrip(s))

\* str.startswith(p)
StartsWith(s, p) == Len(s) >= Len(p) /\ SubSeq(s, 1, Len(p)) = p

\* str.find(p) + 1: the index of the first occurrence of p in s, 0 if none
Find(s, p) ==
    LET at == {i \in 1..(Len(s) - Len(p) + 1) : SubSeq(s, i, i + Len(p) - 1) = p}
    IN  IF at = {} THEN 0 ELSE CHOOSE i \in at : \A j \in at : i <= j

\* str.replace(old, new), old not empty: every non-overlapping occurrence,
\* left to right
RECURSIVE Replace(_, _, _)
Replace(s, old, new) ==
    LET i == Find(s, old)
    IN  IF i = 0 THEN s
        ELSE SubSeq(s, 1, i - 1) \o new
             \o Replace(SubSeq(s, i + Len(old), Len(s)), old, new)

\* lines 80-82: the text handed to json.loads
StripFence(text) ==
    IF StartsWith(Strip(text), FenceOpen)
    THEN Strip(Replace(Replace(text, FenceOpenNL, <<>>), Fence, <<>>))
    ELSE text

----------------------------------------------------------------------------
(* json.loads.  A value is [t, s, m]: t the type, s the atoms of a string  *)
(* or number, m the members of an object (key k, value v) or the elements  *)
(* of an array (k empty).                                                  *)

JStr(s) == [t |-> "str", s |-> s, m |-> <<>>]
JNum(s) == [t |-> "num", s |-> s, m |-> <<>>]
JObj(m) == [t |-> "obj", s |-> <<>>, m |-> m]
JArr(m) == [t |-> "arr", s |-> <<>>, m |-> m]

ParseFail == [ok |-> FALSE, v |-> JStr(<<>>), i |-> 0]
ParseOk(v, i) == [ok |-> TRUE, v |-> v, i |-> i]

\* index of the first non-whitespace atom at or after i
RECURSIVE SkipWs(_, _)
SkipWs(s, i) ==
    IF i <= Len(s) /\ IsSpace(s[i]) THEN SkipWs(s, i + 1) ELSE i

\* index of the closing quote of the string whose content starts at i, 0 if
\* the string is unterminated or holds a control character (strict mode)
StringEnd(s, i) ==
    LET stop == {x \in i..Len(s) : s[x] \in {QUOTE, NL}}
    IN  IF stop = {} THEN 0
        ELSE LET e == CHOOSE x \in stop : \A y \in stop : x <= y
             IN  IF s[e] = QUOTE THEN e ELSE 0

ParseString(s, i) ==
    LET e == StringEnd(s, i + 1)
    IN  IF e = 0 THEN ParseFail ELSE ParseOk(JStr(SubSeq(s, i + 1, e - 1)), e + 1)

RECURSIVE NumEnd(_, _)
NumEnd(s, i) ==
    IF i <= Len(s) /\ s[i] \in NumAtoms THEN NumEnd(s, i + 1) ELSE i

\* dict[k] = v: a repeated key keeps its place and takes the last value
DictSet(m, k, v) ==
    IF \E x \in 1..Len(m) : m[x].k = k
    THEN [x \in 1..Len(m) |-> IF m[x].k = k THEN [k |-> k, v |-> v] ELSE m[x]]
    ELSE Append(m, [k |-> k, v |-> v])

RECURSIVE ParseValue(_, _)
RECURSIVE ParseMembers(_, _, _)
RECURSIVE ParseElems(_, _, _)

\* i is the index of the first atom of the value
ParseValue(s, i) ==
    IF i > Len(s) THEN ParseFail
    ELSE IF s[i] = QUOTE THEN ParseString(s, i)
    ELSE IF s[i] \in NumAtoms
         THEN ParseOk(JNum(SubSeq(s, i, NumEnd(s, i) - 1)), NumEnd(s, i))
    ELSE IF s[i] = "{"
         THEN LET j == SkipWs(s, i + 1)
              IN  IF j <= Len(s) /\ s[j] = "}"
                  THEN ParseOk(JObj(<<>>), j + 1)
                  ELSE ParseMembers(s, j, <<>>)
    ELSE IF s[i] = "["
         THEN LET j == SkipWs(s, i + 1)
              IN  IF j <= Len(s) /\ s[j] = "]"
                  THEN ParseOk(JArr(<<>>), j + 1)
                  ELSE ParseElems(s, j, <<>>)
    ELSE ParseFail

\* j is where the next key must start
ParseMembers(s, j, acc) ==
    IF j > Len(s) \/ s[j] # QUOTE THEN ParseFail
    ELSE LET key == ParseString(s, j)
         IN  IF ~key.ok THEN ParseFail
             ELSE LET c == SkipWs(s, key.i)
                  IN  IF c > Len(s) \/ s[c] # ":" THEN ParseFail
                      ELSE LET val == ParseValue(s, SkipWs(s, c + 1))
                           IN  IF ~val.ok THEN ParseFail
                               ELSE LET e    == SkipWs(s, val.i)
                                        acc2 == DictSet(acc, key.v.s, val.v)
                                    IN  IF e > Len(s) THEN ParseFail
                                        ELSE IF s[e] = "}" THEN ParseOk(JObj(acc2), e + 1)
                                        ELSE IF s[e] = ","
                                             THEN ParseMembers(s, SkipWs(s, e + 1), acc2)
                                        ELSE ParseFail

\* j is where the next element must start
ParseElems(s, j, acc) ==
    LET val == ParseValue(s, j)
    IN  IF ~val.ok THEN ParseFail
        ELSE LET e    == SkipWs(s, val.i)
                 acc2 == Append(acc, [k |-> <<>>, v |-> val.v])
             IN  IF e > Len(s) THEN ParseFail
                 ELSE IF s[e] = "]" THEN ParseOk(JArr(acc2), e + 1)
                 ELSE IF s[e] = ","
                      THEN ParseElems(s, SkipWs(s, e + 1), acc2)
                 ELSE ParseFail

\* json.loads(s): ok = FALSE stands for JSONDecodeError
JsonLoads(s) ==
    LET r == ParseValue(s, SkipWs(s, 1))
    IN  IF r.ok /\ SkipWs(s, r.i) > Len(s)
        THEN [ok |-> TRUE, v |-> r.v]
        ELSE [ok |-> FALSE, v |-> JStr(<<>>)]

----------------------------------------------------------------------------
(* Lines 86-123: from the decoded response to the summary text *)

\* the default of lines 90-93 and the marker compared at lines 98, 115, 117
NoDisponible == JStr(<<"No disponible">>)
NA           == JStr(<<"N/A">>)

\* property names of the receipt object
K_restaurant_name == <<"restaurant_name">>
K_restaurantName  == <<"restaurantName">>
K_date            == <<"date">>
K_time            == <<"time">>
K_total           == <<"total">>
K_items           == <<"items">>

HasKey(d, key) == \E x \in 1..Len(d.m) : d.m[x].k = key

\* dict.get(key, default)
Get(d, key, default) ==
    IF HasKey(d, key)
    THEN d.m[CHOOSE x \in 1..Len(d.m) : d.m[x].k = key].v
    ELSE default

\* bool(v), as tested by "if items:" and "if quantity:"
Truthy(v) ==
    CASE v.t = "str" -> v.s # <<>>
      [] v.t = "num" -> \E x \in 1..Len(v.s) : v.s[x] # "0"
      [] OTHER       -> v.m # <<>>

RECURSIVE Join(_, _)
\* sep.join(parts)
Join(parts, sep) ==
    IF parts = <<>> THEN <<>>
    ELSE IF Len(parts) = 1 THEN parts[1]
    ELSE parts[1] \o sep \o Join(Tail(parts), sep)

RECURSIVE PyRepr(_)
\* repr(v) of a decoded value (strings without quote characters)
PyRepr(v) ==
    CASE v.t = "str" -> <<"'">> \o v.s \o <<"'">>
      [] v.t = "num" -> v.s
      [] v.t = "arr" ->
            <<"[">> \o Join([x \in 1..Len(v.m) |-> PyRepr(v.m[x].v)], <<",", SP>>) \o <<"]">>
      [] OTHER ->
            <<"{">> \o Join([x \in 1..Len(v.m) |->
                                <<"'">> \o v.m[x].k \o <<"'", ":", SP>> \o PyRepr(v.m[x].v)],
                            <<",", SP>>) \o <<"}">>

\* "{v}" inside an f-string: str(v)
PyStr(v) == IF v.t = "str" THEN v.s ELSE PyRepr(v)

\* lines 90-93 and 102: the fields read from the decoded object
Record(json_output) ==
    [restaurant_name |-> Get(json_output, K_restaurantName, NoDisponible),
     date            |-> Get(json_output, K_date, NoDisponible),
     time            |-> Get(json_output, K_time, NoDisponible),
     total           |-> Get(json_output, K_total, NoDisponible),
     items           |-> Get(json_output, K_items, JArr(<<>>))]

\* line 98: whether the time line is appended
ShowTime(time) == time # NA

\* lines 106-119: the text of one item line
ItemLine(item) ==
    LET quantity    == Get(item, <<"quantity">>, JStr(<<>>))
        name        == Get(item, <<"name">>, NA)
        unit_price  == Get(item, <<"unit_price">>, NA)
        total_price == Get(item, <<"total_price">>, NA)
    IN  <<"(arrow) ">>
        \o (IF Truthy(quantity) THEN PyStr(quantity) \o <<"x", SP>> ELSE <<>>)
        \o PyStr(name)
        \o (IF total_price # NA THEN <<SP, "*">> \o PyStr(total_price) \o <<"*">> ELSE <<>>)
        \o (IF unit_price # NA
            THEN <<SP, "(", "(bust) ">> \o PyStr(unit_price) \o <<SP, "por unidad)">>
            ELSE <<>>)

\* the literal that opens the time line (line 99)
HoraLabel == <<"(clock) *Hora:* ">>
\* line 121
NoItemsLine == <<"No se encontraron articulos detallados.">>

\* lines 95-121: message_parts
MessageParts(rec) ==
    << <<"(party) *Resumen del ticket* (party)", NL>>,
       <<"(pin) *Restaurante:* ">> \o PyStr(rec.restaurant_name),
       <<"(calendar) *Fecha:* ">> \o PyStr(rec.date) >>
    \o (IF ShowTime(rec.time) THEN << HoraLabel \o PyStr(rec.time) >> ELSE <<>>)
    \o << <<"(money) *Total:* ">> \o PyStr(rec.total) \o <<NL>> >>
    \o (IF Truthy(rec.items)
        THEN << <<"(burger) *Articulos consumidos:*">> >>
             \o [x \in 1..Len(rec.items.m) |-> ItemLine(rec.items.m[x].v)]
        ELSE << NoItemsLine >>)

\* whether lines 86-123 raise an exception other than JSONDecodeError: .get
\* on a value that is no dict (the response itself, or an element met while
\* iterating a truthy items value), or iteration of a number
FormatRaises(json_output) ==
    \/ json_output.t # "obj"
    \/ LET items == Get(json_output, K_items, JArr(<<>>))
       IN  /\ Truthy(items)
           /\ ~(items.t = "arr" /\ \A x \in 1..Len(items.m) : items.m[x].v.t = "obj")

\* lines 127-130
JsonFallbackPrefix ==
    <<"Gemini proceso la imagen, pero tuvo problemas para estructurar la informacion como JSON. ",
      "Aqui esta la respuesta original:", NL, NL>>
\* lines 133-136
OtherFallbackPrefix ==
    <<"Hubo un problema al interpretar la respuesta de Gemini. ",
      "Respuesta original de Gemini:", NL, NL>>

\* the fallback reply without the response text
JsonFallbackReply_noraw(text) == JsonFallbackPrefix

\* lines 127-130: the reply when json.loads raised JSONDecodeError
JsonFallbackReply(text) == JsonFallbackPrefix \o text

\* lines 78-136: which branch produces reply_text
ReplyKind(text) ==
    LET d == JsonLoads(StripFence(text))
    IN  IF ~d.ok THEN "fallback_json"
        ELSE IF FormatRaises(d.v) THEN "fallback_other"
        ELSE "summary"

\* lines 78-136: reply_text for the response text
BuildReply(text) ==
    LET d == JsonLoads(StripFence(text))
    IN  IF ~d.ok THEN JsonFallbackReply(text)
        ELSE IF FormatRaises(d.v) THEN OtherFallbackPrefix \o text
        ELSE Join(MessageParts(Record(d.v)), <<NL>>)

\* whether sub occurs in s
Contains(s, sub) ==
    \E x \in 0..(Len(s) - Len(sub)) : SubSeq(s, x + 1, x + Len(sub)) = sub

----------------------------------------------------------------------------
(* Responses of the model (response.text, lines 73-80) *)

StrLit(s) == <<QUOTE>> \o s \o <<QUOTE>>

\* one line item, as the prompt of line 67 asks for it
ItemText ==
    <<"{">> \o StrLit(<<"name">>) \o <<":", SP>> \o StrLit(<<"Cafe">>) \o <<",", SP>>
    \o StrLit(<<"total_price">>) \o <<":", SP>> \o StrLit(<<"2.50EUR">>) \o <<"}">>

\* the five properties the prompt of line 70 names, in its order
PromptKeys == <<K_restaurant_name, K_date, K_time, K_total, K_items>>

\* a JSON object holding the properties of `present`; rv and tv are the
\* restaurant and time strings, iv the text of the items value
ObjText(present, rv, tv, iv) ==
    LET val(k) == CASE k = K_restaurant_name -> StrLit(rv)
                    [] k = K_date            -> StrLit(<<"12/05/2024">>)
                    [] k = K_time            -> StrLit(tv)
                    [] k = K_total           -> StrLit(<<"15.00EUR">>)
                    [] OTHER                 -> iv
        in(k)  == k \in present
        keys   == SelectSeq(PromptKeys, in)
    IN  <<"{">>
        \o Join([x \in 1..Len(keys) |-> StrLit(keys[x]) \o <<":", SP>> \o val(keys[x])],
                <<",", SP>>)
        \o <<"}">>

AllKeys == {PromptKeys[x] : x \in 1..Len(PromptKeys)}

\* a response the way models commonly fence it: ```json\n J \n```
Wrap(j) == FenceOpenNL \o j \o <<NL>> \o Fence

\* the JSON texts the normalizer is exercised on
JTexts ==
    { ObjText(P, rv, tv, iv) :
        P \in SUBSET AllKeys,
        rv \in {<<"Cafe Sol">>, <<"Cafe", SP, BT, BT, BT>>},
        tv \in {<<"21:30">>, <<"N/A">>},
        iv \in {<<"[", "]">>, <<"[">> \o ItemText \o <<"]">>} }
    \cup { <<"not a json">>,
           <<>>,
           <<"[", "]">>,
           <<"{">> \o StrLit(K_restaurantName) \o <<":", SP>> \o StrLit(<<"Cafe Sol">>) \o <<"}">>,
           <<"{", "}">> \o Fence,
           <<"{">> \o StrLit(K_items) \o <<":", SP>> \o StrLit(<<"No disponible">>) \o <<"}">> }

\* the responses a photo request can get in the handler specification
Responses ==
    { Wrap(ObjText(AllKeys, <<"Cafe Sol">>, <<"21:30">>, <<"[">> \o ItemText \o <<"]">>)),
      <<"not a json">> }

----------------------------------------------------------------------------
(* State *)

Req     == 1..MaxReq
\* names tempfile can give (line 49) and ids the file store can give (line 54)
Names   == 1..MaxReq
Handles == 1..MaxReq

\* response[r] before generate_content has returned
NoResponse == <<"(no response)">>

VARIABLES
    pc,                    \* pc[r]: the call task r is awaiting or inside
    running,               \* the task holding the event-loop thread, 0 if none
    temp_image_file_path,  \* line 42/50; 0 is None
    uploaded_file,         \* line 43/54; 0 is None
    response,              \* response.text, line 73
    caught,                \* the exception caught at line 140, <<>> if none
    exc,                   \* the exception propagating out of handle_photo
    sent,                  \* the texts passed to update.message.reply_text
    warned,                \* logger.warning of line 153 was issued
    fs,                    \* local files: name -> request that created it, 0 absent
    store,                 \* remote file store: id -> request that uploaded it
    log,                   \* uses of local files and remote ids
    local_removes,         \* number of os.remove calls (line 145)
    remote_deletes,        \* number of client.files.delete calls (line 150)
    nj,                    \* normalizer specification: the JSON text J
    nres                   \* normalizer specification: outcome for J bare and fenced

handlerVars == <<pc, running, temp_image_file_path, uploaded_file, response, caught,
                 exc, sent, warned, fs, store, log, local_removes, remote_deletes>>
normVars    == <<nj, nres>>
vars        == <<handlerVars, normVars>>

\* line 40
AckMessage == <<"He recibido tu foto. Dame un momento mientras la IA la analiza...">>
\* line 142
GenericText ==
    <<"Lo siento, hubo un error al procesar tu foto con Gemini. ",
      "Asegurate de que la foto sea un ticket real y con texto legible.">>

\* the exception a failing call raises
Error(call) == <<"Error in", call>>

HandlerInit ==
    /\ pc = [r \in Req |-> "idle"]
    /\ running = 0
    /\ temp_image_file_path = [r \in Req |-> 0]
    /\ uploaded_file = [r \in Req |-> 0]
    /\ response = [r \in Req |-> NoResponse]
    /\ caught = [r \in Req |-> <<>>]
    /\ exc = [r \in Req |-> "None"]
    /\ sent = [r \in Req |-> <<>>]
    /\ warned = [r \in Req |-> FALSE]
    /\ fs = [n \in Names |-> 0]
    /\ store = [h \in Handles |-> 0]
    /\ log = {}
    /\ local_removes = [r \in Req |-> 0]
    /\ remote_deletes = [r \in Req |-> 0]

NormPending == [st |-> "pending", ok |-> FALSE, v |-> JStr(<<>>),
                rec |-> Record(JObj(<<>>)), kind |-> "none", reply |-> <<>>]

----------------------------------------------------------------------------
(* Pieces of handle_photo *)

\* a fixed file name instead of a fresh one
FreshNames_fixed(fsys) == {1}

\* line 49: NamedTemporaryFile gives a name no existing file has
FreshNames(fsys) == {n \in Names : fsys[n] = 0}

\* line 54: the file store gives an id no stored file has
FreshHandles(st) == {h \in Handles : st[h] = 0}

\* Names and ids are opaque and each task takes at most one of each, so out
\* of the free ones task r is given number r when that is free, and the lowest
\* free one otherwise
Pick(r, free) == IF r \in free THEN r ELSE CHOOSE x \in free : \A y \in free : x <= y

\* line 55: the file handed to client.files.upload
UploadSource(r, paths) == paths[r]

\* the reply with the caught exception appended
GenericFailureReply_leaks(e) == GenericText \o <<":", SP>> \o e

\* line 142: the reply sent from the except clause; e is the caught exception
GenericFailureReply(e) == GenericText

\* the existence test inverted
LocalCleanupNeeded_inverted(path, fsys) == path # 0 /\ fsys[path] = 0

\* line 144: the condition guarding os.remove
LocalCleanupNeeded(path, fsys) == path # 0 /\ fsys[path] # 0

\* client.files.delete called without the try/except around it
ExcAfterRemoteDelete_unguarded(e, ok) == IF ok THEN e ELSE "ClientError"

\* lines 149-153: the exception leaving the cleanup after client.files.delete
\* returned (ok) or raised; e is the exception in flight before it
ExcAfterRemoteDelete(e, ok) == e

\* lines 140-142: an exception raised inside the try block is caught, logged,
\* and the generic reply is sent (awaited)
Except(r, call) ==
    /\ caught' = [caught EXCEPT ![r] = Error(call)]
    /\ sent' = [sent EXCEPT ![r] = Append(@, GenericFailureReply(Error(call)))]
    /\ pc' = [pc EXCEPT ![r] = "fail_reply"]
    /\ running' = 0

----------------------------------------------------------------------------
(* Steps of one task.  A task resumes only when no task holds the event-   *)
(* loop thread (running = 0); it keeps the thread through calls that are   *)
(* not awaited (lines 54, 73, 145, 150) and gives it up at each await      *)
(* (lines 40, 47, 51, 138, 142).                                           *)

\* lines 36-40: the task starts and awaits the acknowledgement reply.
\* Tasks are alike, so they start in index order.
Dispatch(r) ==
    /\ pc[r] = "idle"
    /\ running = 0
    /\ IF r = 1 THEN TRUE ELSE pc[r - 1] # "idle"
    /\ pc' = [pc EXCEPT ![r] = "ack"]
    /\ sent' = [sent EXCEPT ![r] = Append(@, AckMessage)]
    /\ UNCHANGED <<running, temp_image_file_path, uploaded_file, response, caught, exc,
                   warned, fs, store, log, local_removes, remote_deletes, normVars>>

\* line 40 returns or raises (outside the try block); lines 42-47
AckReturn(r) ==
    /\ pc[r] = "ack"
    /\ running = 0
    /\ \E ok \in BOOLEAN :
        IF ok
        THEN /\ pc' = [pc EXCEPT ![r] = "get_file"]
             /\ exc' = exc
        ELSE /\ pc' = [pc EXCEPT ![r] = "done"]
             /\ exc' = [exc EXCEPT ![r] = "TelegramError"]
    /\ UNCHANGED <<running, temp_image_file_path, uploaded_file, response, caught, sent,
                   warned, fs, store, log, local_removes, remote_deletes, normVars>>

\* line 47 returns or raises; lines 49-51 create the temporary file
GetFileReturn(r) ==
    /\ pc[r] = "get_file"
    /\ running = 0
    /\ \E ok \in BOOLEAN :
        IF ok
        THEN /\ FreshNames(fs) # {}
             /\ LET n == Pick(r, FreshNames(fs))
                IN  /\ fs' = [fs EXCEPT ![n] = r]
                    /\ temp_image_file_path' = [temp_image_file_path EXCEPT ![r] = n]
             /\ log' = log \cup {[actor |-> r, op |-> "create", owner |-> r]}
             /\ pc' = [pc EXCEPT ![r] = "download"]
             /\ UNCHANGED <<running, caught, sent>>
        ELSE /\ Except(r, "get_file")
             /\ UNCHANGED <<fs, temp_image_file_path, log>>
    /\ UNCHANGED <<uploaded_file, response, exc, warned, store,
                   local_removes, remote_deletes, normVars>>

\* line 51 returns or raises; lines 52-56 call client.files.upload
DownloadReturn(r) ==
    /\ pc[r] = "download"
    /\ running = 0
    /\ \E ok \in BOOLEAN :
        IF ok
        THEN /\ pc' = [pc EXCEPT ![r] = "upload"]
             /\ running' = r
             /\ log' = log \cup {[actor |-> r, op |-> "upload",
                                  owner |-> fs[UploadSource(r, temp_image_file_path)]]}
             /\ UNCHANGED <<caught, sent>>
        ELSE /\ Except(r, "download")
             /\ log' = log
    /\ UNCHANGED <<temp_image_file_path, uploaded_file, response, exc, warned, fs, store,
                   local_removes, remote_deletes, normVars>>

\* line 54 returns or raises; lines 57-76 call client.models.generate_content
UploadReturn(r) ==
    /\ pc[r] = "upload"
    /\ running = r
    /\ \E ok \in BOOLEAN :
        IF ok
        THEN /\ FreshHandles(store) # {}
             /\ LET h == Pick(r, FreshHandles(store))
                IN  /\ store' = [store EXCEPT ![h] = r]
                    /\ uploaded_file' = [uploaded_file EXCEPT ![r] = h]
                    /\ log' = log \cup {[actor |-> r, op |-> "store", owner |-> r],
                                         [actor |-> r, op |-> "prompt", owner |-> store'[h]]}
             /\ pc' = [pc EXCEPT ![r] = "generate"]
             /\ UNCHANGED <<running, caught, sent>>
        ELSE /\ Except(r, "upload")
             /\ UNCHANGED <<store, uploaded_file, log>>
    /\ UNCHANGED <<temp_image_file_path, response, exc, warned, fs,
                   local_removes, remote_deletes, normVars>>

\* line 73 returns or raises; lines 78-138 build reply_text and send it
GenerateReturn(r) ==
    /\ pc[r] = "generate"
    /\ running = r
    /\ \E ok \in BOOLEAN :
        IF ok
        THEN /\ \E text \in Responses :
                  /\ response' = [response EXCEPT ![r] = text]
                  /\ sent' = [sent EXCEPT ![r] = Append(@, BuildReply(text))]
             /\ pc' = [pc EXCEPT ![r] = "reply"]
             /\ running' = 0
             /\ caught' = caught
        ELSE /\ Except(r, "generate_content")
             /\ response' = response
    /\ UNCHANGED <<temp_image_file_path, uploaded_file, exc, warned, fs, store, log,
                   local_removes, remote_deletes, normVars>>

\* lines 143-150, run when the try statement is left with exception e in
\* flight ("None" if none): os.remove if the guard holds (it returns or raises
\* OSError, which leaves the finally block at once), then the call of
\* client.files.delete if a file was uploaded.  The locals die with the frame
\* when handle_photo ends.
Finally(r, e) ==
    LET p    == temp_image_file_path[r]
        h    == uploaded_file[r]
        need == LocalCleanupNeeded(p, fs)
        uses == IF need THEN {[actor |-> r, op |-> "remove", owner |-> fs[p]]} ELSE {}
    IN  \E removed \in (IF need THEN BOOLEAN ELSE {TRUE}) :
          /\ local_removes' = [local_removes EXCEPT ![r] = IF need THEN @ + 1 ELSE @]
          /\ fs' = IF need /\ removed THEN [fs EXCEPT ![p] = 0] ELSE fs
          /\ exc' = [exc EXCEPT ![r] = IF removed THEN e ELSE "OSError"]
          /\ IF removed /\ h # 0
             THEN /\ pc' = [pc EXCEPT ![r] = "remote_delete"]
                  /\ running' = r
                  /\ remote_deletes' = [remote_deletes EXCEPT ![r] = @ + 1]
                  /\ log' = log \cup uses
                            \cup {[actor |-> r, op |-> "delete", owner |-> store[h]]}
                  /\ UNCHANGED <<temp_image_file_path, uploaded_file>>
             ELSE /\ pc' = [pc EXCEPT ![r] = "done"]
                  /\ running' = 0
                  /\ remote_deletes' = remote_deletes
                  /\ log' = log \cup uses
                  /\ temp_image_file_path' = [temp_image_file_path EXCEPT ![r] = 0]
                  /\ uploaded_file' = [uploaded_file EXCEPT ![r] = 0]

\* line 138 returns, and the finally block runs; or it raises, and the raise
\* is caught at line 140 like any other
ReplyReturn(r) ==
    /\ pc[r] = "reply"
    /\ running = 0
    /\ \E ok \in BOOLEAN :
        IF ok
        THEN /\ Finally(r, "None")
             /\ UNCHANGED <<caught, sent>>
        ELSE /\ Except(r, "reply_text")
             /\ UNCHANGED <<temp_image_file_path, uploaded_file, exc, fs, log,
                            local_removes, remote_deletes>>
    /\ UNCHANGED <<response, warned, store, normVars>>

\* line 142 returns, or raises and the exception propagates; either way the
\* finally block runs
FailReplyReturn(r) ==
    /\ pc[r] = "fail_reply"
    /\ running = 0
    /\ \E ok \in BOOLEAN : Finally(r, IF ok THEN "None" ELSE "TelegramError")
    /\ UNCHANGED <<response, caught, sent, warned, store, normVars>>

\* line 150 returns or raises; lines 151-153 log either way
DeleteReturn(r) ==
    /\ pc[r] = "remote_delete"
    /\ running = r
    /\ \E ok \in BOOLEAN :
        /\ store' = IF ok THEN [store EXCEPT ![uploaded_file[r]] = 0] ELSE store
        /\ warned' = [warned EXCEPT ![r] = ~ok]
        /\ exc' = [exc EXCEPT ![r] = ExcAfterRemoteDelete(@, ok)]
    /\ pc' = [pc EXCEPT ![r] = "done"]
    /\ running' = 0
    /\ temp_image_file_path' = [temp_image_file_path EXCEPT ![r] = 0]
    /\ uploaded_file' = [uploaded_file EXCEPT ![r] = 0]
    /\ UNCHANGED <<response, caught, sent, fs, log, local_removes, remote_deletes,
                   normVars>>

\* any step of task r
Step(r) ==
    \/ Dispatch(r)
    \/ AckReturn(r)
    \/ GetFileReturn(r)
    \/ DownloadReturn(r)
    \/ UploadReturn(r)
    \/ GenerateReturn(r)
    \/ ReplyReturn(r)
    \/ FailReplyReturn(r)
    \/ DeleteReturn(r)

Init ==
    /\ HandlerInit
    /\ nj = <<>>
    /\ nres = [bare |-> NormPending, fenced |-> NormPending]

Next == \E r \in Req : Step(r)

Spec == Init /\ [][Next]_vars

----------------------------------------------------------------------------
(* The normalizer on its own: lines 78-136 applied to a JSON text J, as the *)
(* model returned it and wrapped in a code fence                            *)

\* lines 80-123 on one response text
NormOutcome(text) ==
    LET d == JsonLoads(StripFence(text))
    IN  [st    |-> "done",
         ok    |-> d.ok,
         v     |-> d.v,
         rec   |-> IF d.ok /\ d.v.t = "obj" THEN Record(d.v) ELSE Record(JObj(<<>>)),
         kind  |-> ReplyKind(text),
         reply |-> BuildReply(text)]

NormInit ==
    /\ HandlerInit
    /\ nj \in JTexts
    /\ nres = [bare |-> NormPending, fenced |-> NormPending]

HandleBare ==
    /\ nres.bare.st = "pending"
    /\ nres' = [nres EXCEPT !.bare = NormOutcome(nj)]
    /\ UNCHANGED <<nj, handlerVars>>

HandleFenced ==
    /\ nres.fenced.st = "pending"
    /\ nres' = [nres EXCEPT !.fenced = NormOutcome(Wrap(nj))]
    /\ UNCHANGED <<nj, handlerVars>>

NormNext == HandleBare \/ HandleFenced

SpecNorm == NormInit /\ [][NormNext]_vars

----------------------------------------------------------------------------
(* Properties of the handler (specification Spec) *)

\* staging created a local file for request r (line 49)
Staged(r) == [actor |-> r, op |-> "create", owner |-> r] \in log
\* the upload of request r returned a remote handle (line 54)
Uploaded(r) == [actor |-> r, op |-> "store", owner |-> r] \in log

IsGeneric(m) == StartsWith(m, GenericText)
GenericCount(r) == Cardinality({i \in DOMAIN sent[r] : IsGeneric(sent[r][i])})

\* the response of request r arrived and json.loads rejects it
NotJson(r) == response[r] # NoResponse /\ ~JsonLoads(StripFence(response[r])).ok

\* C1: for every request whose staging created a local file, os.remove is
\* called on that file exactly once by the time handle_photo has ended,
\* whichever later call failed, and never more than once at any time; unless
\* that one os.remove call itself raised, the file is gone.
C1_LocalFileRemovedOnce ==
    \A r \in Req :
        /\ local_removes[r] <= 1
        /\ (pc[r] = "done" /\ Staged(r)) =>
              /\ local_removes[r] = 1
              /\ exc[r] # "OSError" => \A n \in Names : fs[n] # r

\* a request whose upload failed after staging has ended with one os.remove
C1_Witness ==
    \E r \in Req :
        pc[r] = "done" /\ Staged(r) /\ caught[r] = Error("upload") /\ local_removes[r] = 1

\* C2: for every request whose upload returned a remote handle, exactly one
\* client.files.delete call for it has been issued by the time handle_photo has
\* ended, on every exit path and whatever os.remove did before it.
C2_RemoteDeletedOnce ==
    \A r \in Req :
        /\ remote_deletes[r] <= 1
        /\ (pc[r] = "done" /\ Uploaded(r)) => remote_deletes[r] = 1

\* C3: when get_file, the download, the upload or generate_content raised, the
\* handler has made exactly one reply_text call with the generic failure
\* message by the time it ends, every other reply is the acknowledgement (no
\* summary, no fallback), and no reply contains the caught error.
C3_OneGenericFailureReply ==
    \A r \in Req :
        (/\ pc[r] = "done"
         /\ caught[r] \in {Error("get_file"), Error("download"), Error("upload"),
                           Error("generate_content")})
        => /\ GenericCount(r) = 1
           /\ \A i \in DOMAIN sent[r] : sent[r][i] = AckMessage \/ sent[r][i] = GenericText
           /\ \A i \in DOMAIN sent[r] : ~Contains(sent[r][i], caught[r])

\* a request whose inference call failed has ended with the acknowledgement and
\* the generic failure message as its only replies
C3_Witness ==
    \E r \in Req :
        /\ pc[r] = "done"
        /\ caught[r] = Error("generate_content")
        /\ sent[r] = <<AckMessage, GenericText>>

\* C4 as stated: when the response text is not valid JSON, the fallback reply
\* (prefix, then the raw text) is sent and the generic failure message is not.
C4_FallbackAndNeverGeneric ==
    \A r \in Req :
        NotJson(r) =>
            /\ \E i \in DOMAIN sent[r] :
                  /\ StartsWith(sent[r][i], JsonFallbackPrefix)
                  /\ Contains(sent[r][i], response[r])
            /\ GenericCount(r) = 0

\* C4 as amended: when the response text is not valid JSON, the reply built
\* for it is the fallback reply, the explanatory prefix followed by the raw
\* text verbatim; the generic failure message is sent for that request only
\* if the reply_text call carrying the fallback reply raised.
C4_FallbackGenericOnlyIfReplyRaised ==
    \A r \in Req :
        NotJson(r) =>
            /\ Len(sent[r]) >= 2
            /\ sent[r][1] = AckMessage
            /\ sent[r][2] = JsonFallbackPrefix \o response[r]
            /\ \A i \in 3..Len(sent[r]) : sent[r][i] = GenericText
            /\ GenericCount(r) > 0 => caught[r] = Error("reply_text")

\* a request with a non-JSON response has ended after its fallback reply
\* raised and the generic failure message was sent
C4_Witness ==
    \E r \in Req :
        /\ pc[r] = "done"
        /\ NotJson(r)
        /\ sent[r] = <<AckMessage, JsonFallbackPrefix \o response[r], GenericText>>

\* C5: the step in which client.files.delete returns or raises leaves the
\* replies of the request and the exception handle_photo ends with exactly as
\* they were before the call, so they are the same for both outcomes.
C5_RemoteDeleteOutcomeIrrelevant ==
    [][\A r \in Req :
          (pc[r] = "remote_delete" /\ pc'[r] = "done")
          => (sent'[r] = sent[r] /\ exc'[r] = exc[r])]_vars

\* a request has ended normally, its summary sent, although the remote
\* deletion failed and was logged
C5_Witness ==
    \E r \in Req :
        /\ pc[r] = "done"
        /\ warned[r]
        /\ exc[r] = "None"
        /\ Len(sent[r]) = 2
        /\ ~NotJson(r)

\* the calls whose network wait C8 speaks of
Waiting(r) == pc[r] \in {"download", "upload", "generate", "remote_delete"}

\* C8: while a request waits on its download, upload, inference or remote
\* deletion call, every other request that has started and not ended can take
\* a step.
C8_OthersCanStep ==
    \A r, r2 \in Req :
        (r # r2 /\ Waiting(r) /\ pc[r2] \notin {"idle", "done"}) => ENABLED Step(r2)

\* C9: in every interleaving, the file a request uploads, the handle its
\* prompt references, the file it removes and the handle it deletes were
\* created by that same request.
C9_OwnArtifactsOnly ==
    \A e \in log :
        e.op \in {"upload", "prompt", "remove", "delete"} => e.owner = e.actor

\* one request is awaiting its download, its file on disk, while another has
\* uploaded, prompted, removed its file and is deleting its handle
C9_Witness ==
    \E r, r2 \in Req :
        /\ r # r2
        /\ pc[r] = "download"
        /\ fs[temp_image_file_path[r]] = r
        /\ pc[r2] = "remote_delete"
        /\ [actor |-> r2, op |-> "remove", owner |-> r2] \in log

----------------------------------------------------------------------------
(* Properties of the normalizer (specification SpecNorm) *)

\* the field of the record that holds property k of the prompt
Field(rec, k) ==
    CASE k = K_restaurant_name -> rec.restaurant_name
      [] k = K_date            -> rec.date
      [] k = K_time            -> rec.time
      [] k = K_total           -> rec.total
      [] OTHER                 -> rec.items

\* the documented default of property k
Default(k) == IF k = K_items THEN JArr(<<>>) ELSE NoDisponible

\* C6: for a response that is a JSON object with the property names of the
\* prompt, each field of the record is the response's value when the property
\* is present and its default when it is absent.
C6_FieldsFollowResponse ==
    LET o == nres.bare
    IN  (o.st = "done" /\ o.ok /\ o.v.t = "obj" /\ ~HasKey(o.v, K_restaurantName))
        => \A k \in AllKeys : Field(o.rec, k) = Get(o.v, k, Default(k))

\* C7: a summary built from a response without a time property has no time
\* line, and a summary has a time line only when time is neither the default
\* nor the "N/A" marker.
C7_NoTimeLineWithoutTime ==
    LET o == nres.bare
    IN  (o.st = "done" /\ o.kind = "summary")
        => /\ ~HasKey(o.v, K_time) => ~Contains(o.reply, HoraLabel)
           /\ Contains(o.reply, HoraLabel) => o.rec.time \notin {NoDisponible, NA}

\* C10: J wrapped in a ```json fence decodes to the same outcome as J alone:
\* the same value when J is valid JSON, a decoding failure in both cases
\* otherwise.
C10_FenceRoundTrip ==
    (nres.bare.st = "done" /\ nres.fenced.st = "done")
    => /\ nres.bare.ok = nres.fenced.ok
       /\ nres.bare.ok => nres.bare.v = nres.fenced.v

====
